---- MODULE Spec2Model ----
(***************************************************************************)
(* Model of the per-invocation state machine of restate-sdk-go             *)
(* (package state: Machine.Start, Machine.process, Machine.invoke,         *)
(* Machine.output, replayOrNew) and of the error helpers of package        *)
(* restate (WithErrorCode, TerminalError, IsTerminalError, ErrorCode).     *)
(*                                                                         *)
(* The wire codec (wire.Protocol) is an external collaborator: a Read      *)
(* delivers whatever frame the orchestrator sent or fails, a Write may     *)
(* fail.  The variable out records every call of protocol.Write in order,  *)
(* with the result of the call.                                            *)
(***************************************************************************)
EXTENDS Integers, Sequences, FiniteSets, TLC

VARIABLES
    pc,         \* where Machine.Start is: see PcValues
    m,          \* the Machine struct: id, partial, current, entries, entryIndex, mutex
    start,      \* the Start frame Machine.process works on
    input,      \* the PollInput frame Machine.process works on
    out,        \* every call of protocol.Write so far: [msg, ok]
    nread,      \* number of calls of protocol.Read so far
    fnCalls,    \* number of executions of a SideEffect's fn
    calls,      \* the calls of replayOrNew so far and what each handed back
    ret,        \* what handler.Call returned: [val, err]
    recovered,  \* the value recover() yields in invoke's deferred function
    invoked,    \* whether handler.Call has been called
    result,     \* what Machine.Start returned, "running" before it returns
    first,      \* what an earlier session of the same invocation left behind
    rx,         \* what protocol.Read delivered while Machine.Start and process ran
    gor,        \* the goroutines of the handler: where each is in replayOrNew
    errv        \* an error value built with the helpers of package restate

vars == <<pc, m, start, input, out, nread, fnCalls, calls, ret, recovered, invoked, result, first,
          rx, gor, errv>>

\* ------------------------------------------------------------------------
\* Bounds of the model
\* ------------------------------------------------------------------------
MaxOps == 2         \* journaled operations a handler issues in one session
MaxKnown == 3       \* largest known-entries count K carried by Start
NumGoroutines == 2  \* goroutines of one handler that call the Context
MaxWrap == 3        \* error helpers applied to one error value

\* ------------------------------------------------------------------------
\* Program constants
\* ------------------------------------------------------------------------
Version == 1
UNKNOWN == 2
NOT_FOUND == 5
INTERNAL == 13
CodeWidth == 65536      \* type Code uint16

Keys == {"x"}
Values == {"v1", "v2"}
Absent == "absent"      \* a key that is not in the map, an empty completion

\* ------------------------------------------------------------------------
\* package restate: errors.  An error value is a chain of wrappers around
\* a plain error: layers lists the wrappers outermost first, text is the
\* text of the innermost plain error.
\* ------------------------------------------------------------------------
Nil == [nil |-> TRUE, layers |-> << >>, text |-> << >>]

PlainError(text) == [nil |-> FALSE, layers |-> << >>, text |-> text]

codeError(code) == [t |-> "code", code |-> code % CodeWidth]
terminalError == [t |-> "terminal", code |-> 0]

WithErrorCode(err, code) ==
    IF err.nil THEN Nil
    ELSE [err EXCEPT !.layers = <<codeError(code)>> \o err.layers]

\* codes is the variadic parameter: a sequence of at most one code.
TerminalError(err, codes) ==
    IF err.nil THEN Nil
    ELSE LET t == [err EXCEPT !.layers = <<terminalError>> \o err.layers]
         IN  IF Len(codes) = 1
             THEN [t EXCEPT !.layers = <<codeError(codes[1])>> \o t.layers]
             ELSE t

\* Mutant: only the outermost error is looked at (a type assertion).
isTerminalOutermost(err) ==
    ~err.nil /\ err.layers # << >> /\ Head(err.layers).t = "terminal"

\* errors.As(err, &t) with t *terminalError: some layer of the chain.
IsTerminalError(err) ==
    IF err.nil THEN FALSE
    ELSE \E i \in 1..Len(err.layers) : err.layers[i].t = "terminal"

\* Mutant: the code found deepest in the chain wins.
errorCodeInnermost(err) ==
    LET idx == {i \in 1..Len(err.layers) : err.layers[i].t = "code"}
    IN  IF idx = {} THEN UNKNOWN
        ELSE err.layers[CHOOSE i \in idx : \A j \in idx : i >= j].code

\* errors.As(err, &e) with e *codeError: the first (outermost) such layer.
ErrorCode(err) ==
    LET idx == {i \in 1..Len(err.layers) : err.layers[i].t = "code"}
    IN  IF idx = {} THEN UNKNOWN
        ELSE err.layers[CHOOSE i \in idx : \A j \in idx : i <= j].code

HexDigits == <<"0", "1", "2", "3", "4", "5", "6", "7",
               "8", "9", "A", "B", "C", "D", "E", "F">>

\* fmt "%04X" of a uint16
Hex4(c) == << HexDigits[((c \div 4096) % 16) + 1],
              HexDigits[((c \div 256) % 16) + 1],
              HexDigits[((c \div 16) % 16) + 1],
              HexDigits[(c % 16) + 1] >>

\* err.Error(): codeError prints "[CODE %04X] " before its inner error,
\* terminalError prints its inner error unchanged.  A string is a sequence
\* of pieces.
RECURSIVE LayersString(_, _)
LayersString(layers, text) ==
    IF layers = << >> THEN text
    ELSE IF Head(layers).t = "code"
         THEN <<"[CODE ">> \o Hex4(Head(layers).code) \o <<"] ">>
                  \o LayersString(Tail(layers), text)
         ELSE LayersString(Tail(layers), text)

ErrorString(err) == LayersString(err.layers, err.text)

\* ------------------------------------------------------------------------
\* package wire: the frames protocol.Read can deliver and the messages
\* handed to protocol.Write.
\* ------------------------------------------------------------------------
Limb == 65536           \* a uint32 is two 16-bit limbs: hi * Limb + lo

ReadErr == [type |-> "readError"]
NoFrame == [type |-> "none"]

StartFrame(version, known, stateMap, partial) ==
    [type |-> "Start", version |-> version, debugId |-> "inv",
     known |-> known, stateMap |-> stateMap, partial |-> partial]

\* valid: whether proto.Unmarshal accepts the input bytes
PollInputFrame(valid) == [type |-> "PollInput", valid |-> valid]

SetStateEntry(key, value) == [type |-> "SetState", key |-> key, value |-> value]
GetStateEntry(key, completed, value) ==
    [type |-> "GetState", key |-> key, completed |-> completed, value |-> value]
SleepEntry(completed) == [type |-> "Sleep", completed |-> completed]
SideEffectEntry(value) == [type |-> "SideEffect", value |-> value]
CompletionFrame(value) == [type |-> "Completion", value |-> value]

OutputValue(bytes) ==
    [type |-> "Output", failure |-> FALSE, value |-> bytes, code |-> 0, message |-> << >>]
OutputFailure(code, message) ==
    [type |-> "Output", failure |-> TRUE, value |-> << >>, code |-> code, message |-> message]
ErrorMessage(code, message, description) ==
    [type |-> "Error", code |-> code, message |-> message, description |-> description]
SuspensionMessage(indexes) == [type |-> "Suspension", entryIndexes |-> indexes]
EndMessage == [type |-> "End"]

\* The frames the orchestrator sends in the model.
StartFrames ==
    { StartFrame(v, k, sm, p) : v \in {Version, Version + 1}, k \in 0..MaxKnown,
                                sm \in [Keys -> {Absent, "v1"}], p \in BOOLEAN }
PollInputFrames == { PollInputFrame(b) : b \in BOOLEAN }
EntryFrames ==
    { SetStateEntry(k, "v2") : k \in Keys }
      \cup { GetStateEntry(k, TRUE, v) : k \in Keys, v \in {"v2", Absent} }
      \cup { GetStateEntry(k, FALSE, Absent) : k \in Keys }
      \cup { SleepEntry(b) : b \in BOOLEAN }
      \cup { SideEffectEntry("v2") }
CompletionFrames == { CompletionFrame("v2") }

\* protocol.Write(msg): the call is recorded with its result.
Write(w, msg, ok) == Append(w, [msg |-> msg, ok |-> ok])

\* A stream that failed a write stays failed: once a call of Write has
\* returned an error, every later call does.
WriteOutcomes(w) ==
    IF \E i \in 1..Len(w) : ~w[i].ok THEN {FALSE} ELSE BOOLEAN

ErrIO == PlainError(<<"io">>)
WriteErr(ok) == IF ok THEN Nil ELSE ErrIO

\* ------------------------------------------------------------------------
\* package state: the Machine
\* ------------------------------------------------------------------------
NewMachine ==
    [id |-> "", partial |-> FALSE, current |-> [k \in Keys |-> Absent],
     entries |-> << >>, entriesCap |-> [hi |-> 0, lo |-> 0], entryIndex |-> 0, mutex |-> FALSE]

NoPanic == [kind |-> "none", resumeEntry |-> 0]
suspend(resumeEntry) == [kind |-> "suspend", resumeEntry |-> resumeEntry]
PanicValue == [kind |-> "value", resumeEntry |-> 0]

errEntryMismatch == WithErrorCode(PlainError(<<"journal mismatch">>), INTERNAL)

NoEntry == [type |-> "none"]

\* Mutant: the position is counted from the end of the journal.
currentEntryFromEnd(c) ==
    IF c.entryIndex < Len(c.entries)
    THEN [entry |-> c.entries[Len(c.entries) - c.entryIndex], ok |-> TRUE]
    ELSE [entry |-> NoEntry, ok |-> FALSE]

\* Mutant: a position past the end of the journal starts over at its
\* beginning.
currentEntryWrapped(c) ==
    IF Len(c.entries) > 0
    THEN [entry |-> c.entries[(c.entryIndex % Len(c.entries)) + 1], ok |-> TRUE]
    ELSE [entry |-> NoEntry, ok |-> FALSE]

\* Machine.currentEntry: the entry at the position, if the journal has one
currentEntry(c) ==
    IF c.entryIndex < Len(c.entries)
    THEN [entry |-> c.entries[c.entryIndex + 1], ok |-> TRUE]
    ELSE [entry |-> NoEntry, ok |-> FALSE]

\* What a callback of replayOrNew hands back: the machine and the wire as it
\* left them, the (output, err) pair it returns, or the value it panics with.
Outcome(st, path, val, err, panic) ==
    [m |-> st.m, out |-> st.out, nread |-> st.nread, fnCalls |-> st.fnCalls,
     path |-> path, val |-> val, err |-> err, panic |-> panic]

Zero == ""          \* the zero value of an output
Unit == "unit"      \* void{}

\* The journaled operations a handler can issue through its Context.
SetOp(key, value) == [kind |-> "Set", typ |-> "SetState", key |-> key, value |-> value]
GetOp(key) == [kind |-> "Get", typ |-> "GetState", key |-> key, value |-> Absent]
SleepOp == [kind |-> "Sleep", typ |-> "Sleep", key |-> "", value |-> Absent]
SideEffectOp(fnres) ==
    [kind |-> "SideEffect", typ |-> "SideEffect", key |-> "", value |-> fnres]

\* The replay decoder of an operation: the result stored in the recorded
\* entry; a blocking entry recorded without its completion unwinds the
\* handler with the suspension signal for its journal position (the input
\* entry is position 0, so the entry at entries[entryIndex] is entryIndex+1).
ReplayDecoder(op, entry, st) ==
    CASE op.kind = "Set" -> Outcome(st, "replay", Unit, Nil, NoPanic)
      [] op.kind = "Get" ->
            IF entry.completed
            THEN Outcome(st, "replay", entry.value, Nil, NoPanic)
            ELSE Outcome(st, "replay", Zero, Nil, suspend(st.m.entryIndex + 1))
      [] op.kind = "Sleep" ->
            IF entry.completed
            THEN Outcome(st, "replay", Unit, Nil, NoPanic)
            ELSE Outcome(st, "replay", Zero, Nil, suspend(st.m.entryIndex + 1))
      [] op.kind = "SideEffect" -> Outcome(st, "replay", entry.value, Nil, NoPanic)

\* Write the entry, then read until its completion arrives.
\* e.wok: the write succeeds; e.frame: what protocol.Read delivers.
EmitAndAwait(st, msg, e, fixed) ==
    LET w == [st EXCEPT !.out = Write(@, msg, e.wok)]
        r == [w EXCEPT !.nread = @ + 1]
    IN  IF ~e.wok THEN Outcome(w, "new", Zero, ErrIO, NoPanic)
        ELSE IF e.frame = ReadErr THEN Outcome(r, "new", Zero, ErrIO, NoPanic)
        ELSE IF e.frame.type # "Completion"
             THEN Outcome(r, "new", Zero, errEntryMismatch, NoPanic)
        ELSE Outcome(r, "new", IF fixed = Zero THEN e.frame.value ELSE fixed,
                     Nil, NoPanic)

\* The new-entry producer of an operation.
NewProducer(op, st, e) ==
    CASE op.kind = "Set" ->
            Outcome([st EXCEPT !.out = Write(@, SetStateEntry(op.key, op.value), e.wok),
                               !.m.current[op.key] = op.value],
                    "new", Unit, WriteErr(e.wok), NoPanic)
      [] op.kind = "Get" ->
            IF st.m.current[op.key] # Absent \/ ~st.m.partial
            THEN Outcome([st EXCEPT !.out =
                              Write(@, GetStateEntry(op.key, TRUE, st.m.current[op.key]),
                                    e.wok)],
                         "new", IF e.wok THEN st.m.current[op.key] ELSE Zero,
                         WriteErr(e.wok), NoPanic)
            ELSE EmitAndAwait(st, GetStateEntry(op.key, FALSE, Absent), e, Zero)
      [] op.kind = "Sleep" -> EmitAndAwait(st, SleepEntry(FALSE), e, Unit)
      [] op.kind = "SideEffect" ->
            EmitAndAwait([st EXCEPT !.fnCalls = @ + 1],
                         SideEffectEntry(op.value), e, op.value)

\* Mutant: the recorded entry is checked but the new-entry producer runs.
replayOrNewAlwaysNew(st, typ, op, e) ==
    LET locked == [st EXCEPT !.m.mutex = TRUE]
        cur == currentEntry(locked.m)
        r == IF cur.ok /\ cur.entry.type # typ
             THEN Outcome(locked, "mismatch", Zero, errEntryMismatch, NoPanic)
             ELSE NewProducer(op, locked, e)
    IN  [r EXCEPT !.m.entryIndex = @ + 1, !.m.mutex = FALSE]

\* Mutant: the position is advanced at the end of the body instead of in a
\* deferred function, so the early return of a mismatch skips it.
replayOrNewNoDefer(st, typ, op, e) ==
    LET locked == [st EXCEPT !.m.mutex = TRUE]
        cur == currentEntry(locked.m)
    IN  IF cur.ok /\ cur.entry.type # typ
        THEN [Outcome(locked, "mismatch", Zero, errEntryMismatch, NoPanic)
                 EXCEPT !.m.mutex = FALSE]
        ELSE [(IF cur.ok THEN ReplayDecoder(op, cur.entry, locked)
                         ELSE NewProducer(op, locked, e))
                 EXCEPT !.m.entryIndex = @ + 1, !.m.mutex = FALSE]

\* replayOrNew between m.mutex.Lock() and its deferred functions: the
\* position is read, then the replay decoder or the new-entry producer runs.
replayOrNewBody(locked, typ, op, e) ==
    LET cur == currentEntry(locked.m)
    IN  IF cur.ok
        THEN IF cur.entry.type # typ
             THEN Outcome(locked, "mismatch", Zero, errEntryMismatch, NoPanic)
             ELSE ReplayDecoder(op, cur.entry, locked)
        ELSE NewProducer(op, locked, e)

replayOrNew(st, typ, op, e) ==
    LET locked == [st EXCEPT !.m.mutex = TRUE]
        r == replayOrNewBody(locked, typ, op, e)
    IN  \* the deferred functions: entryIndex += 1, then mutex.Unlock()
        [r EXCEPT !.m.entryIndex = @ + 1, !.m.mutex = FALSE]

\* Machine.set, get, sleep, sideEffect: each hands its kind and its two
\* callbacks to replayOrNew and returns what replayOrNew returns.
MachineOp(st, op, e) == replayOrNew(st, op.typ, op, e)

\* proto.Marshal(r): the encoded response
Marshal(r) == <<"RpcResponse", r>>

\* Mutant: every error is reported as a terminal failure.
outputAlwaysTerminal(r, err, marshalOk) ==
    IF ~err.nil
    THEN OutputFailure(ErrorCode(err), ErrorString(err))
    ELSE IF ~marshalOk
         THEN ErrorMessage(INTERNAL, <<"marshal">>, "failed to serialize call output")
    ELSE OutputValue(Marshal(r))

\* Machine.output: the message built from what the handler returned.
\* marshalOk: proto.Marshal succeeds.
output(r, err, marshalOk) ==
    IF ~err.nil /\ IsTerminalError(err)
    THEN OutputFailure(ErrorCode(err), ErrorString(err))
    ELSE IF ~err.nil
         THEN ErrorMessage(ErrorCode(err), ErrorString(err), "")
    ELSE IF ~marshalOk
         THEN ErrorMessage(INTERNAL, <<"marshal">>, "failed to serialize call output")
    ELSE OutputValue(Marshal(r))

\* Mutant: the suspend case lacks its return and runs on into the default
\* case and the End write.
invokeDeferredBoth(w, rec, ok1, ok2) ==
    CASE rec.kind = "none" -> Write(w, EndMessage, ok1)
      [] rec.kind = "suspend" ->
            Write(Write(Write(w, SuspensionMessage(<<rec.resumeEntry>>), ok1),
                        ErrorMessage(INTERNAL, <<"panic">>, "stack"), ok2),
                  EndMessage, ok2)
      [] OTHER ->
            Write(Write(w, ErrorMessage(INTERNAL, <<"panic">>, "stack"), ok1),
                  EndMessage, ok2)

\* Mutant: the suspend case lacks its return, so End follows Suspension.
invokeDeferredFallThrough(w, rec, ok1, ok2) ==
    CASE rec.kind = "none" -> Write(w, EndMessage, ok1)
      [] rec.kind = "suspend" ->
            Write(Write(w, SuspensionMessage(<<rec.resumeEntry>>), ok1),
                  EndMessage, ok2)
      [] OTHER ->
            Write(Write(w, ErrorMessage(INTERNAL, <<"panic">>, "stack"), ok1),
                  EndMessage, ok2)

\* Mutant: an unknown panic is recovered but not reported.
invokeDeferredSwallow(w, rec, ok1, ok2) ==
    CASE rec.kind = "suspend" ->
            Write(w, SuspensionMessage(<<rec.resumeEntry>>), ok1)
      [] OTHER -> Write(w, EndMessage, ok1)

\* Mutant: End is written only after a panic.
invokeDeferredNoEnd(w, rec, ok1, ok2) ==
    CASE rec.kind = "none" -> w
      [] rec.kind = "suspend" ->
            Write(w, SuspensionMessage(<<rec.resumeEntry>>), ok1)
      [] OTHER ->
            Write(Write(w, ErrorMessage(INTERNAL, <<"panic">>, "stack"), ok1),
                  EndMessage, ok2)

\* The deferred function of Machine.invoke: the writes it makes for the
\* value recover() returned.  ok1, ok2: whether its writes succeed.
invokeDeferred(w, rec, ok1, ok2) ==
    CASE rec.kind = "none" -> Write(w, EndMessage, ok1)
      [] rec.kind = "suspend" ->
            Write(w, SuspensionMessage(<<rec.resumeEntry>>), ok1)
      [] OTHER ->
            Write(Write(w, ErrorMessage(INTERNAL, <<"panic">>, "stack"), ok1),
                  EndMessage, ok2)

\* Mutant: the deferred function overwrites what invoke returns.
invokeResultOverwritten(rec, decided) == "nil"

\* What Machine.Start returns once the deferred function has run: the
\* panic was recovered, so invoke returns the value it had decided on.
invokeResult(rec, decided) == IF rec.kind = "none" THEN decided ELSE "nil"

\* ------------------------------------------------------------------------
\* The handler: what user code may hand back.
\* ------------------------------------------------------------------------
Missing == PlainError(<<"missing">>)

ObservedErrs == { calls[i].err : i \in 1..Len(calls) } \ {Nil}

\* The errors a handler returns in the model: a plain error, with and
\* without a code, terminal or not, and any error a Context operation
\* returned to it.
HandlerErrs ==
    { Missing,
      WithErrorCode(Missing, NOT_FOUND),
      TerminalError(Missing, << >>),
      TerminalError(Missing, <<NOT_FOUND>>) }
      \cup ObservedErrs

NoRet == [val |-> Zero, err |-> Nil]

\* ------------------------------------------------------------------------
\* State machine
\* ------------------------------------------------------------------------
MachineInit ==
    /\ pc = "Start"
    /\ m = NewMachine
    /\ start = NoFrame
    /\ input = NoFrame
    /\ out = << >>
    /\ nread = 0
    /\ fnCalls = 0
    /\ calls = << >>
    /\ ret = NoRet
    /\ recovered = NoPanic
    /\ invoked = FALSE
    /\ result = "running"

\* a session that is the first of its invocation
NoSession == [run |-> 0]

\* nothing read yet: head holds the frames up to PollInput, known the
\* KnownEntries of the Start frame, entries the frames after PollInput,
\* failed whether the last Read returned an error
NoReads == [head |-> << >>, known |-> 0, entries |-> << >>, failed |-> FALSE]

\* the goroutines that call the Context: goroutine 1 runs handler.Call
Goroutines == 1..NumGoroutines
Idle == [at |-> "idle", deferred |-> << >>, seen |-> 0, panic |-> NoPanic]
NoGoroutines == [g \in Goroutines |-> Idle]

\* no error helper applied yet
NoErr == [val |-> Nil, base |-> "nil", terminal |-> FALSE, codes |-> << >>,
          applied |-> 0]

\* what the steps of one session leave alone
aside == <<gor, errv>>

Init ==
    /\ MachineInit
    /\ first = NoSession
    /\ rx = NoReads
    /\ gor = NoGoroutines
    /\ errv = NoErr

Return(err) == pc' = "Done" /\ result' = err

\* Machine.Start up to the call of process, and process up to its first
\* Read: the state map of the Start payload is copied into m.current.
seedState(mm, f) ==
    [mm EXCEPT !.current = [k \in Keys |->
                               IF f.stateMap[k] # Absent THEN f.stateMap[k] ELSE @[k]]]

\* Mutant: the protocol version of the Start frame is not checked.
StartAnyVersion(f) ==
    /\ pc = "Start"
    /\ nread' = nread + 1
    /\ IF f = ReadErr
       THEN Return("read error") /\ UNCHANGED <<m, start>>
       ELSE IF f.type # "Start"
       THEN Return("ErrUnexpectedMessage") /\ UNCHANGED <<m, start>>
       ELSE /\ m' = seedState([m EXCEPT !.id = f.debugId], f)
            /\ start' = f
            /\ pc' = "PollInput"
            /\ UNCHANGED result
    /\ UNCHANGED <<input, out, fnCalls, calls, ret, recovered, invoked>>

Start(f) ==
    /\ pc = "Start"
    /\ nread' = nread + 1
    /\ IF f = ReadErr
       THEN Return("read error") /\ UNCHANGED <<m, start>>
       ELSE IF f.type # "Start"
       THEN Return("ErrUnexpectedMessage") /\ UNCHANGED <<m, start>>
       ELSE IF f.version # Version
       THEN /\ Return("ErrInvalidVersion")
            /\ m' = [m EXCEPT !.id = f.debugId]
            /\ UNCHANGED start
       ELSE /\ m' = seedState([m EXCEPT !.id = f.debugId], f)
            /\ start' = f
            /\ pc' = "PollInput"
            /\ UNCHANGED result
    /\ UNCHANGED <<input, out, fnCalls, calls, ret, recovered, invoked>>

\* process: read the input entry and size the journal
\* (make([]wire.Message, 0, KnownEntries-1)).
\* start.Payload.KnownEntries-1 in uint32 arithmetic, by limbs with borrow
entriesCapacity(known) ==
    [hi |-> ((known \div Limb) - (IF known % Limb = 0 THEN 1 ELSE 0)) % Limb,
     lo |-> ((known % Limb) - 1) % Limb]

\* make([]wire.Message, 0, cap): whether the runtime hands the slice out.
\* A capacity that fits 16 bits is always granted; a larger one may be
\* refused (2^32 - 1 interface values are 64 GiB on a 64-bit build and
\* out of range on a 32-bit one), which ends the process.
makeOutcomes(cap) == IF cap.hi > 0 THEN BOOLEAN ELSE {TRUE}

processPollInput(f) ==
    /\ pc = "PollInput"
    /\ nread' = nread + 1
    /\ IF f = ReadErr
       THEN Return("read error") /\ UNCHANGED <<m, input>>
       ELSE IF f.type # "PollInput"
       THEN Return("ErrUnexpectedMessage") /\ UNCHANGED <<m, input>>
       ELSE \E made \in makeOutcomes(entriesCapacity(start.known)) :
              IF made
              THEN /\ m' = [m EXCEPT !.entries = << >>,
                                     !.entriesCap = entriesCapacity(start.known)]
                   /\ input' = f
                   /\ pc' = "Entries"
                   /\ UNCHANGED result
              ELSE /\ pc' = "Crashed"
                   /\ UNCHANGED <<m, input, result>>
    /\ UNCHANGED <<start, out, fnCalls, calls, ret, recovered, invoked>>

\* the loop variable i of process: one more than the entries read so far
loopIndex == Len(m.entries) + 1

\* Mutant: the entry is put in front of the ones read before.
journalPrepend(entries, f) == <<f>> \o entries

\* m.entries = append(m.entries, msg)
journalAppend(entries, f) == Append(entries, f)

processReadEntry(f) ==
    /\ pc = "Entries"
    /\ loopIndex < start.known
    /\ nread' = nread + 1
    /\ IF f = ReadErr
       THEN Return("failed to read entry") /\ UNCHANGED m
       ELSE /\ m' = [m EXCEPT !.entries = journalAppend(@, f)]
            /\ UNCHANGED <<pc, result>>
    /\ UNCHANGED <<start, input, out, fnCalls, calls, ret, recovered, invoked>>

\* process after the loop: decode the input and call invoke, which calls
\* the handler.
processInvoke ==
    /\ pc = "Entries"
    /\ ~(loopIndex < start.known)
    /\ IF ~input.valid
       THEN Return("invalid invocation input")
       ELSE pc' = "Handler" /\ UNCHANGED result
    /\ invoked' = input.valid
    \* process reads neither start nor the input frame again
    /\ start' = NoFrame
    /\ input' = NoFrame
    /\ UNCHANGED <<m, out, nread, fnCalls, calls, ret, recovered>>

\* A Context operation of the handler: Context.Set, Get, Sleep, SideEffect.
State == [m |-> m, out |-> out, nread |-> nread, fnCalls |-> fnCalls]

CallRecord(op, r) ==
    [index |-> m.entryIndex, typ |-> op.typ,
     hadEntry |-> m.entryIndex < Len(m.entries),
     entry |-> IF m.entryIndex < Len(m.entries)
               THEN m.entries[m.entryIndex + 1] ELSE NoEntry,
     path |-> r.path, val |-> r.val, err |-> r.err, panic |-> r.panic]

ContextOp(op, e) ==
    /\ pc = "Handler"
    /\ Len(calls) < MaxOps
    /\ LET r == MachineOp(State, op, e)
       IN  /\ m' = r.m
           /\ out' = r.out
           /\ nread' = r.nread
           /\ fnCalls' = r.fnCalls
           /\ calls' = Append(calls, CallRecord(op, r))
           /\ recovered' = r.panic
           /\ pc' = IF r.panic.kind = "none" THEN "Handler" ELSE "Deferred"
    /\ UNCHANGED <<start, input, ret, invoked, result>>

Env == [wok : WriteOutcomes(out),
        frame : CompletionFrames \cup {ReadErr}]

ContextSet == \E k \in Keys, e \in Env : ContextOp(SetOp(k, "v1"), e)
ContextGet == \E k \in Keys, e \in Env : ContextOp(GetOp(k), e)
ContextSleep == \E e \in Env : ContextOp(SleepOp, e)
ContextSideEffect == \E e \in Env : ContextOp(SideEffectOp("v1"), e)

HandlerReturn ==
    /\ pc = "Handler"
    /\ \/ ret' = [val |-> "r1", err |-> Nil]
       \/ \E x \in HandlerErrs : ret' = [val |-> Zero, err |-> x]
    /\ pc' = "Output"
    /\ UNCHANGED <<m, start, input, out, nread, fnCalls, calls, recovered, invoked, result>>

HandlerPanic ==
    /\ pc = "Handler"
    /\ recovered' = PanicValue
    /\ pc' = "Deferred"
    /\ UNCHANGED <<m, start, input, out, nread, fnCalls, calls, ret, invoked, result>>

\* invoke after handler.Call returned: m.output, then protocol.Write.
invokeOutput ==
    /\ pc = "Output"
    /\ \E marshalOk \in BOOLEAN, ok \in WriteOutcomes(out) :
          /\ out' = Write(out, output(ret.val, ret.err, marshalOk), ok)
          /\ result' = IF ok THEN "nil" ELSE "write error"
    /\ pc' = "Deferred"
    /\ UNCHANGED <<m, start, input, nread, fnCalls, calls, ret, recovered, invoked>>

invokeDefer ==
    /\ pc = "Deferred"
    /\ \E ok1 \in WriteOutcomes(out) :
          \E ok2 \in (IF ok1 THEN BOOLEAN ELSE {FALSE}) :
              out' = invokeDeferred(out, recovered, ok1, ok2)
    /\ result' = invokeResult(recovered, result)
    /\ pc' = "Done"
    /\ UNCHANGED <<m, start, input, nread, fnCalls, calls, ret, recovered, invoked>>

\* protocol.Read delivered f: the record of what was read so far
\* (of a frame up to PollInput: its type, the version of a Start frame,
\* whether the input of a PollInput frame decodes)
Header(f) ==
    [type |-> f.type,
     version |-> IF f.type = "Start" THEN f.version ELSE 0,
     valid |-> IF f.type = "PollInput" THEN f.valid ELSE TRUE]

Delivered(f) ==
    IF f = ReadErr THEN [rx EXCEPT !.failed = TRUE]
    ELSE IF pc = "Entries" THEN [rx EXCEPT !.entries = Append(@, f)]
    ELSE [rx EXCEPT !.head = Append(@, Header(f)),
                    !.known = IF f.type = "Start" THEN f.known ELSE @]

\* The steps of one session: the orchestrator sends any frame, the handler
\* is any user code, a write may fail.

ReadStart ==
    /\ \E f \in StartFrames \cup PollInputFrames \cup {ReadErr} :
          Start(f) /\ rx' = Delivered(f)
    /\ UNCHANGED <<first, aside>>
ReadPollInput ==
    /\ \E f \in PollInputFrames \cup EntryFrames \cup {ReadErr} :
          processPollInput(f) /\ rx' = Delivered(f)
    /\ UNCHANGED <<first, aside>>
ReadEntry ==
    /\ \E f \in EntryFrames \cup {ReadErr} :
          processReadEntry(f) /\ rx' = Delivered(f)
    /\ UNCHANGED <<first, aside>>
Invoke == processInvoke /\ UNCHANGED <<first, rx, aside>>
HandlerSet == ContextSet /\ UNCHANGED <<first, rx, aside>>
HandlerGet == ContextGet /\ UNCHANGED <<first, rx, aside>>
HandlerSleep == ContextSleep /\ UNCHANGED <<first, rx, aside>>
HandlerSideEffect == ContextSideEffect /\ UNCHANGED <<first, rx, aside>>
Returns == HandlerReturn /\ UNCHANGED <<first, rx, aside>>
Panics == HandlerPanic /\ UNCHANGED <<first, rx, aside>>
WriteOutput == invokeOutput /\ UNCHANGED <<first, rx, aside>>
Deferred == invokeDefer /\ UNCHANGED <<first, rx, aside>>

Next ==
    \/ ReadStart
    \/ ReadPollInput
    \/ ReadEntry
    \/ Invoke
    \/ HandlerSet
    \/ HandlerGet
    \/ HandlerSleep
    \/ HandlerSideEffect
    \/ Returns
    \/ Panics
    \/ WriteOutput
    \/ Deferred

Spec == Init /\ [][Next]_vars

\* ------------------------------------------------------------------------
\* Properties
\* ------------------------------------------------------------------------
Written(type) == { i \in 1..Len(out) : out[i].msg.type = type }
Count(type) == Cardinality(Written(type))
Returned == pc = "Done"
EntryTypes == {"SetState", "GetState", "Sleep", "SideEffect"}
AllWritesOk == \A i \in 1..Len(out) : out[i].ok

\* the number of terminating outcomes handed to protocol.Write: Output
\* followed by End, Suspension, Error
OutputThenEnd ==
    { i \in Written("Output") : \E j \in Written("End") : i < j }
Outcomes == Cardinality(OutputThenEnd) + Count("Suspension") + Count("Error")

\* C1 as stated: whatever frames arrive, when Start returns exactly one of
\* {Output followed by End, Suspension, Error} has been written.
C1_ExactlyOneOutcomeAlways == Returned => Outcomes = 1

\* C1 as amended: when Start returns after the handler was invoked, exactly
\* one of {Output followed by End, Suspension, Error} has been handed to
\* protocol.Write, and an Output is always followed by End; when the
\* handshake failed nothing has been written.
C1_ExactlyOneOutcomeWhenInvoked ==
    Returned =>
        /\ invoked => Outcomes = 1 /\ OutputThenEnd = Written("Output")
        /\ ~invoked => out = << >>

C1_Witness ==
    /\ Returned /\ invoked
    /\ Len(calls) = 2
    /\ Count("Suspension") = 1
    /\ Outcomes = 1

Mismatched == \E i \in 1..Len(calls) : calls[i].path = "mismatch"

\* C2: once the kind of an operation differed from the kind of the recorded
\* entry at its position, the session writes exactly one Error, with code
\* INTERNAL, and no Output, whatever the handler does afterwards (stated
\* for the sessions in which no write fails).
C2_MismatchEndsInInternalError ==
    (Returned /\ Mismatched /\ AllWritesOk) =>
        /\ Count("Error") = 1
        /\ \A i \in Written("Error") : out[i].msg.code = INTERNAL
        /\ Count("Output") = 0

\* the result stored in a recorded entry
StoredResult(entry) ==
    IF entry.type \in {"GetState", "SideEffect"} THEN entry.value ELSE Unit
Pending(entry) ==
    entry.type \in {"GetState", "Sleep"} /\ ~entry.completed

LastCall == calls'[Len(calls')]

\* C3: a call of replayOrNew that finds a recorded entry of the expected
\* kind at the current position runs the replay decoder only: no frame is
\* written or read, no SideEffect fn is executed, and the caller gets the
\* result stored in the entry (or is unwound when the entry is pending).
C3_ReplayTouchesNothing ==
    [][ (Len(calls') = Len(calls) + 1
           /\ LastCall.hadEntry /\ LastCall.entry.type = LastCall.typ)
        => /\ out' = out
           /\ nread' = nread
           /\ fnCalls' = fnCalls
           /\ LastCall.path = "replay"
           /\ LastCall.err = Nil
           /\ IF Pending(LastCall.entry)
              THEN LastCall.panic.kind = "suspend"
              ELSE /\ LastCall.panic = NoPanic
                   /\ LastCall.val = StoredResult(LastCall.entry) ]_vars

C3_Witness ==
    /\ Len(calls) = 2
    /\ calls[2].hadEntry
    /\ calls[2].typ = "SideEffect" /\ calls[2].entry = SideEffectEntry("v2")
    /\ calls[2].val = "v2"
    /\ fnCalls = 0
    /\ out = << >>

\* C4: when the suspension signal carrying entry index j unwinds the
\* handler, exactly one Suspension message is written, its entry-index list
\* is <<j>>, and no Output, Error or End message follows it.
C4_SuspensionIsLast ==
    (Returned /\ recovered.kind = "suspend") =>
        /\ Count("Suspension") = 1
        /\ \A i \in Written("Suspension") :
              /\ out[i].msg.entryIndexes = <<recovered.resumeEntry>>
              /\ \A j \in (i + 1)..Len(out) :
                    out[j].msg.type \notin {"Output", "Error", "End"}

C4_Witness ==
    /\ Returned /\ recovered = suspend(2)
    /\ calls[1].path = "replay" /\ calls[2].typ = "Sleep"
    /\ out = <<[msg |-> SuspensionMessage(<<2>>), ok |-> TRUE]>>

HandlerReturned == ret # NoRet

\* C6: a handler that returns a terminal error made with code C from an
\* error of text t ends the session with Output(Failure{code = C,
\* message = t}) followed by End, and no Error message (stated for the
\* sessions in which no write fails).
C6_TerminalFailureMessageUnchanged ==
    (Returned /\ AllWritesOk /\ ret.err = TerminalError(Missing, <<NOT_FOUND>>)) =>
        /\ Count("Error") = 0
        /\ Count("Output") = 1 /\ Count("End") = 1
        /\ \A i \in Written("Output") :
              /\ out[i].msg.failure
              /\ out[i].msg.code = NOT_FOUND
              /\ out[i].msg.message = <<"missing">>
              /\ out[i + 1].msg = EndMessage

\* C7: a handler that returns a non-terminal error ends the session with
\* exactly one Error message, carrying the code of the error (UNKNOWN when
\* it has none) and its message, and no Output message.
C7_NonTerminalErrorMessage ==
    (Returned /\ HandlerReturned /\ ret.err # Nil /\ ~IsTerminalError(ret.err)) =>
        /\ Count("Error") = 1
        /\ Count("Output") = 0
        /\ \A i \in Written("Error") :
              /\ out[i].msg.code = ErrorCode(ret.err)
              /\ out[i].msg.message = ErrorString(ret.err)
              /\ ret.err = Missing =>
                    /\ out[i].msg.code = UNKNOWN
                    /\ out[i].msg.message = <<"missing">>
              /\ ret.err = WithErrorCode(Missing, NOT_FOUND) =>
                    /\ out[i].msg.code = NOT_FOUND
                    /\ out[i].msg.message =
                          <<"[CODE ", "0", "0", "0", "5", "] ", "missing">>

C7_Witness ==
    /\ Returned
    /\ ret.err = WithErrorCode(Missing, NOT_FOUND)
    /\ Len(out) = 2
    /\ out[1].msg.type = "Error" /\ out[1].msg.code = NOT_FOUND

\* C8: a panic of the handler with a value that is not the suspension
\* signal ends the session with exactly one Error message, of code INTERNAL
\* and with the stack trace as description, no Output and no Suspension
\* message, and Start returns normally.
C8_PanicBecomesInternalError ==
    (Returned /\ recovered.kind = "value") =>
        /\ Count("Error") = 1
        /\ \A i \in Written("Error") :
              out[i].msg.code = INTERNAL /\ out[i].msg.description = "stack"
        /\ Count("Output") = 0
        /\ Count("Suspension") = 0
        /\ result = "nil"

C8_Witness ==
    /\ Returned /\ recovered = PanicValue
    /\ Len(calls) = 1 /\ calls[1].path = "new"
    /\ Count("Error") = 1

MarshalFailed ==
    \E i \in Written("Error") :
        out[i].msg.description = "failed to serialize call output"

C10_PositionCountsCalls ==
    /\ m.entryIndex = Len(calls)
    /\ \A i \in 1..Len(calls) : calls[i].index = i - 1

C10_Witness ==
    /\ m.entryIndex = 2
    /\ calls[1].path = "mismatch"
    /\ calls[2].panic.kind = "suspend"

\* ------------------------------------------------------------------------
\* An invocation of two sessions.  The first session starts with a replay
\* prefix and runs a handler; the orchestrator journals the entries the
\* session wrote, with their completions, behind the prefix.  The second
\* session is given that full journal and runs the same deterministic
\* handler: it issues the operation the first session issued at each
\* position as long as it has observed the same results, and returns what
\* the first returned.  No read or write fails in either session.
\* ------------------------------------------------------------------------
Prefixes == UNION { [1..n -> EntryFrames] : n \in 0..(MaxKnown - 1) }

FirstSessions ==
    { [run |-> 1, prefix |-> P, stateMap |-> sm, script |-> << >>,
       results |-> << >>, ret |-> NoRet, tail |-> << >>, journal |-> << >>] :
         P \in Prefixes, sm \in [Keys -> {Absent, "v1"}] }

GoodEnv == [wok |-> TRUE, frame |-> CompletionFrame("v2")]

HandlerOps ==
    { SetOp(k, "v1") : k \in Keys } \cup { GetOp(k) : k \in Keys }
        \cup { SleepOp, SideEffectOp("v1") }

\* the fn of a SideEffect would return something else the second time
Again(op) == IF op.kind = "SideEffect" THEN SideEffectOp("v2") ELSE op

\* what the orchestrator stores for an entry it was sent and completed
Journaled(msg) ==
    IF msg.type = "Sleep" THEN SleepEntry(TRUE)
    ELSE IF msg.type = "GetState" /\ ~msg.completed
         THEN GetStateEntry(msg.key, TRUE, GoodEnv.frame.value)
    ELSE msg

IsEntryWrite(w) == w.msg.type \in EntryTypes
IsTerminating(w) == w.msg.type \notin EntryTypes

Journal ==
    LET sent == SelectSeq(out, IsEntryWrite)
    IN  first.prefix \o [i \in 1..Len(sent) |-> Journaled(sent[i].msg)]

Terminating(w) ==
    LET t == SelectSeq(w, IsTerminating) IN [i \in 1..Len(t) |-> t[i].msg]

\* what the handler observes of a call
Result(c) == [val |-> c.val, err |-> c.err, panic |-> c.panic]

SameSoFar == \A i \in 1..Len(calls) : Result(calls[i]) = first.results[i]

SessionEntries == IF first.run = 1 THEN first.prefix ELSE first.journal

EqInit ==
    /\ MachineInit
    /\ first \in FirstSessions
    /\ rx = NoReads
    /\ gor = NoGoroutines
    /\ errv = NoErr

EqReadStart ==
    /\ Start(StartFrame(Version, Len(SessionEntries) + 1, first.stateMap, FALSE))
    /\ UNCHANGED <<first, rx, aside>>

EqReadPollInput == processPollInput(PollInputFrame(TRUE)) /\ UNCHANGED <<first, rx, aside>>

EqReadEntry ==
    /\ pc = "Entries"
    /\ loopIndex < start.known
    /\ processReadEntry(SessionEntries[loopIndex])
    /\ UNCHANGED <<first, rx, aside>>

EqInvoke == processInvoke /\ UNCHANGED <<first, rx, aside>>

EqFirstOp ==
    /\ first.run = 1
    /\ \E op \in HandlerOps :
          /\ ContextOp(op, GoodEnv)
          /\ first' = [first EXCEPT !.script = Append(@, op)]
    /\ UNCHANGED <<rx, aside>>

\* the handler returns what makes an Output: a value or a terminal error
EqFirstReturns ==
    /\ first.run = 1
    /\ HandlerReturn
    /\ ret'.err = Nil \/ IsTerminalError(ret'.err)
    /\ first' = [first EXCEPT !.ret = ret']
    /\ UNCHANGED <<rx, aside>>

EqSecondOp ==
    /\ first.run = 2
    /\ Len(calls) < Len(first.script)
    /\ SameSoFar
    /\ ContextOp(Again(first.script[Len(calls) + 1]), GoodEnv)
    /\ UNCHANGED <<first, rx, aside>>

EqSecondReturns ==
    /\ first.run = 2
    /\ Len(calls) = Len(first.script)
    /\ SameSoFar
    /\ first.ret # NoRet
    /\ HandlerReturn
    /\ ret' = first.ret
    /\ UNCHANGED <<first, rx, aside>>

EqWriteOutput ==
    /\ invokeOutput
    /\ AllWritesOk'
    /\ ~MarshalFailed'
    /\ UNCHANGED <<first, rx, aside>>

EqDeferred == invokeDefer /\ AllWritesOk' /\ UNCHANGED <<first, rx, aside>>

\* the orchestrator invokes again, with the journal of the first session
EqReinvoke ==
    /\ first.run = 1
    /\ pc = "Done"
    /\ first' = [first EXCEPT !.run = 2,
                              !.journal = Journal,
                              !.results = [i \in 1..Len(calls) |-> Result(calls[i])],
                              !.tail = Terminating(out)]
    \* a new Machine on a new stream
    /\ pc' = "Start"
    /\ m' = NewMachine
    /\ start' = NoFrame
    /\ input' = NoFrame
    /\ out' = << >>
    /\ nread' = 0
    /\ fnCalls' = 0
    /\ calls' = << >>
    /\ ret' = NoRet
    /\ recovered' = NoPanic
    /\ invoked' = FALSE
    /\ result' = "running"
    /\ UNCHANGED <<rx, aside>>

EqNext ==
    \/ EqReadStart
    \/ EqReadPollInput
    \/ EqReadEntry
    \/ EqInvoke
    \/ EqFirstOp
    \/ EqFirstReturns
    \/ EqSecondOp
    \/ EqSecondReturns
    \/ EqWriteOutput
    \/ EqDeferred
    \/ EqReinvoke

SpecEq == EqInit /\ [][EqNext]_vars

\* C5: a session that replays the full journal of an earlier session of the
\* same deterministic handler hands the handler, at every journal position,
\* the result the earlier session (which started with a prefix of that
\* journal) handed it, and ends with the same Output (the same terminating
\* messages).
C5_ReplayEquivalence ==
    first.run = 2 =>
        /\ Len(calls) <= Len(first.results)
        /\ SameSoFar
        /\ pc = "Done" => Terminating(out) = first.tail

C5_Witness ==
    /\ first.run = 2 /\ pc = "Done"
    /\ Len(first.prefix) = 1 /\ Len(first.journal) = 2
    /\ Len(calls) = 2
    /\ calls[1].path = "replay" /\ calls[2].path = "replay"
    /\ calls[2].typ = "SideEffect" /\ calls[2].val = "v1"
    /\ fnCalls = 0
    /\ Terminating(out) = <<OutputValue(Marshal("r1")), EndMessage>>

\* ------------------------------------------------------------------------
\* Several goroutines of one handler calling the Context
\* ------------------------------------------------------------------------
\* replayOrNew step by step: Lock, then the body, then the deferred
\* functions one at a time.  Goroutine 1 runs handler.Call; the others were
\* started by the handler and may outlive it.  invoke runs on goroutine 1
\* once the handler has returned.

\* Mutant: replayOrNew does not take the mutex.
mutexLockMissing(mm) == TRUE

\* m.mutex.Lock() returns only while no goroutine holds the mutex
mutexLock(mm) == ~mm.mutex

\* Mutant: the two defer statements are written in the other order.
replayOrNewDefersSwapped == <<"Unlock", "entryIndex += 1">>

\* the deferred functions of replayOrNew in the order they run: the one
\* registered last runs first
replayOrNewDefers == <<"entryIndex += 1", "Unlock">>

\* Mutant: the cleanup is written at the end of the body instead of being
\* deferred, so a panic inside a callback skips it.
replayOrNewExitNoUnwind(r) ==
    IF r.panic.kind = "none" THEN replayOrNewDefers ELSE << >>

\* the deferred functions that run when the body ends with outcome r: all
\* of them, whether the body returned or a callback panicked
replayOrNewExit(r) == replayOrNewDefers

\* the journals the handler may start with: entries of three kinds, one of
\* them a blocking entry recorded with and without its completion
ConcEntryFrames ==
    { SetStateEntry(k, "v2") : k \in Keys }
      \cup { SleepEntry(b) : b \in BOOLEAN }
      \cup { SideEffectEntry("v2") }
ConcPrefixes == UNION { [1..n -> ConcEntryFrames] : n \in 0..(MaxKnown - 1) }

\* what a callback meets on the wire: the completion arrives or the Read fails
ConcEnvs == {GoodEnv, [GoodEnv EXCEPT !.frame = ReadErr]}

\* the session after process handed over to invoke: the journal is loaded,
\* the handler has just been called
ConcInit ==
    /\ pc = "Handler"
    /\ \E P \in ConcPrefixes :
          LET f == StartFrame(Version, Len(P) + 1, [k \in Keys |-> Absent], FALSE)
          IN  /\ m = [seedState([NewMachine EXCEPT !.id = f.debugId], f)
                         EXCEPT !.entries = P,
                                !.entriesCap = entriesCapacity(f.known)]
              /\ rx = [NoReads EXCEPT
                          !.head = <<Header(f), Header(PollInputFrame(TRUE))>>,
                          !.known = f.known, !.entries = P]
    /\ start = NoFrame
    /\ input = NoFrame
    /\ out = << >>
    /\ nread = 2 + Len(m.entries)
    /\ fnCalls = 0
    /\ calls = << >>
    /\ ret = NoRet
    /\ recovered = NoPanic
    /\ invoked = TRUE
    /\ result = "running"
    /\ first = NoSession
    /\ gor = NoGoroutines
    /\ errv = NoErr

\* between Lock and Unlock
Holds(g) ==
    \/ gor[g].at = "locked"
    \/ \E i \in 1..Len(gor[g].deferred) : gor[g].deferred[i] = "Unlock"

\* inside the body of replayOrNew: the position is read and the replay
\* decoder or the new-entry producer runs
InCallback(g) == gor[g].at = "locked"

\* calls of replayOrNew started so far
Started == Len(calls) + Cardinality({ g \in Goroutines : InCallback(g) })

ConcLock(g) ==
    /\ pc # "Crashed"
    /\ gor[g].at = "idle"
    /\ g = 1 => pc = "Handler"
    /\ Started < MaxOps
    /\ mutexLock(m)
    /\ m' = [m EXCEPT !.mutex = TRUE]
    /\ gor' = [gor EXCEPT ![g].at = "locked"]
    /\ UNCHANGED <<pc, start, input, out, nread, fnCalls, calls, ret, recovered,
                   invoked, result, first, rx, errv>>

ConcBody(g) ==
    /\ pc # "Crashed"
    /\ InCallback(g)
    /\ \E op \in HandlerOps, e \in ConcEnvs :
          LET r == replayOrNewBody(State, op.typ, op, e)
          IN  /\ m' = r.m
              /\ out' = r.out
              /\ nread' = r.nread
              /\ fnCalls' = r.fnCalls
              /\ calls' = Append(calls, CallRecord(op, r))
              /\ gor' = [gor EXCEPT ![g] = [at |-> "ran",
                                            deferred |-> replayOrNewExit(r),
                                            seen |-> m.entryIndex,
                                            panic |-> r.panic]]
    /\ UNCHANGED <<pc, start, input, ret, recovered, invoked, result, first, rx, errv>>

\* the next deferred function of replayOrNew runs
ConcDeferred(g) ==
    /\ pc # "Crashed"
    /\ gor[g].at = "ran"
    /\ gor[g].deferred # << >>
    /\ LET f == Head(gor[g].deferred)
       IN  m' = IF f = "Unlock" THEN [m EXCEPT !.mutex = FALSE]
                ELSE [m EXCEPT !.entryIndex = @ + 1]
    /\ gor' = [gor EXCEPT ![g].deferred = Tail(@)]
    /\ UNCHANGED <<pc, start, input, out, nread, fnCalls, calls, ret, recovered,
                   invoked, result, first, rx, errv>>

\* replayOrNew is left: it returns to its caller, or the panic of the
\* callback goes on unwinding.  On goroutine 1 the deferred function of
\* invoke recovers it; on any other goroutine nothing does and the process
\* dies.
ConcLeave(g) ==
    /\ pc # "Crashed"
    /\ gor[g].at = "ran"
    /\ gor[g].deferred = << >>
    /\ gor' = [gor EXCEPT ![g].at = "idle", ![g].panic = NoPanic]
    /\ IF gor[g].panic.kind = "none" THEN UNCHANGED <<pc, recovered>>
       ELSE IF g = 1 THEN pc' = "Deferred" /\ recovered' = gor[g].panic
       ELSE pc' = "Crashed" /\ UNCHANGED recovered
    /\ UNCHANGED <<m, start, input, out, nread, fnCalls, calls, ret, invoked,
                   result, first, rx, errv>>

ConcLocks == \E g \in Goroutines : ConcLock(g)
ConcRuns == \E g \in Goroutines : ConcBody(g)
ConcDefers == \E g \in Goroutines : ConcDeferred(g)
ConcLeaves == \E g \in Goroutines : ConcLeave(g)

\* handler.Call returns on goroutine 1, which is then not inside the Context
ConcReturns ==
    /\ gor[1].at = "idle"
    /\ HandlerReturn
    /\ ret'.err = Nil
    /\ UNCHANGED <<first, rx, aside>>

ConcWriteOutput ==
    /\ invokeOutput
    /\ AllWritesOk'
    /\ ~MarshalFailed'
    /\ UNCHANGED <<first, rx, aside>>

ConcEnd == invokeDefer /\ AllWritesOk' /\ UNCHANGED <<first, rx, aside>>

ConcNext ==
    \/ ConcLocks
    \/ ConcRuns
    \/ ConcDefers
    \/ ConcLeaves
    \/ ConcReturns
    \/ ConcWriteOutput
    \/ ConcEnd

SpecConc == ConcInit /\ [][ConcNext]_vars

\* C11: at any moment at most one goroutine is between Lock and Unlock of
\* replayOrNew, so at most one is inside a replay decoder or a new-entry
\* producer, and the mutex is held for as long as it is there.
C11_OneCallbackAtATime ==
    /\ Cardinality({ g \in Goroutines : Holds(g) }) <= 1
    /\ \A g \in Goroutines : InCallback(g) => Holds(g) /\ m.mutex

\* one goroutine is inside the body while the other waits for the mutex
\* after an earlier call finished
C11_Witness ==
    /\ InCallback(2)
    /\ gor[1].at = "idle"
    /\ Len(calls) = 1
    /\ m.mutex

\* C12: no terminating message (Output, End, Suspension, Error) is written
\* while a goroutine is inside replayOrNew.
C12_TerminatingWriteExcludesOps ==
    [][ (Len(out') > Len(out) /\ out'[Len(out')].msg.type \notin EntryTypes)
            => \A g \in Goroutines : ~Holds(g) ]_vars

\* C20: the calls of replayOrNew observe pairwise distinct journal
\* positions, and once every call has finished the position has advanced
\* by one for each call.
C20_DistinctPositions ==
    /\ \A i, j \in 1..Len(calls) : i # j => calls[i].index # calls[j].index
    /\ (\A g \in Goroutines : gor[g].at = "idle") => m.entryIndex = Len(calls)

\* both goroutines have called replayOrNew, one after the other
C20_Witness ==
    /\ Len(calls) = 2
    /\ \A g \in Goroutines : gor[g].at = "idle"
    /\ gor[1].seen # gor[2].seen
    /\ m.entryIndex = 2

\* ------------------------------------------------------------------------
\* The handshake, the journal and the end of a session
\* ------------------------------------------------------------------------
\* C13: a journal mismatch found by replayOrNew is not handed to the
\* handler as an error value and the handler runs no further: the
\* mismatching call is the last one, the handler never returns, and the
\* session is already being terminated.
C13_MismatchNotObservable ==
    \A i \in 1..Len(calls) :
        calls[i].path = "mismatch" =>
            /\ calls[i].err.nil
            /\ i = Len(calls)
            /\ ret = NoRet
            /\ pc \in {"Deferred", "Done"}

\* the frames read so far make a successful handshake
HandshakeOk ==
    /\ Len(rx.head) = 2
    /\ rx.head[1].type = "Start" /\ rx.head[1].version = Version
    /\ rx.head[2].type = "PollInput"
    /\ ~rx.failed
    /\ Len(rx.entries) = IF rx.known > 0 THEN rx.known - 1 ELSE 0

\* what Machine.Start returns for the frames read when the handshake failed
HandshakeError ==
    IF rx.head = << >> THEN "read error"
    ELSE IF rx.head[1].type # "Start" THEN "ErrUnexpectedMessage"
    ELSE IF rx.head[1].version # Version THEN "ErrInvalidVersion"
    ELSE IF Len(rx.head) = 1 THEN "read error"
    ELSE IF rx.head[2].type # "PollInput" THEN "ErrUnexpectedMessage"
    ELSE IF rx.failed THEN "failed to read entry"
    ELSE "invalid invocation input"

\* C14: the handler is invoked only after a Start frame of the supported
\* version, then a PollInput frame, then all remaining known entries were
\* read without error; when the handshake fails Machine.Start returns the
\* matching error, the handler is never invoked and nothing is written.
C14_HandlerOnlyAfterHandshake ==
    /\ invoked => HandshakeOk
    /\ ~invoked => out = << >>
    /\ (Returned /\ ~invoked) => result = HandshakeError /\ calls = << >>
    /\ (rx.failed /\ ~invoked) => Returned

\* the Start frame carried a version this SDK does not speak
C14_Witness ==
    /\ Returned /\ ~invoked
    /\ Len(rx.head) = 1 /\ rx.head[1].type = "Start" /\ rx.head[1].version # Version
    /\ result = "ErrInvalidVersion"
    /\ out = << >>

\* C15: when the handler runs, the journal is the sequence of frames that
\* arrived after PollInput, unmodified and in arrival order, K - 1 of them
\* for a Start frame with K >= 1 known entries, and the n-th call of
\* replayOrNew (from 0) is matched against the n-th of those frames.
C15_JournalIsWhatArrived ==
    invoked =>
        /\ m.entries = rx.entries
        /\ rx.known >= 1 => Len(m.entries) = rx.known - 1
        /\ \A i \in 1..Len(calls) :
              /\ calls[i].index = i - 1
              /\ IF i <= Len(rx.entries)
                 THEN /\ calls[i].path # "new"
                      /\ calls[i].path = "mismatch" <=>
                            rx.entries[i].type # calls[i].typ
                      /\ (calls[i].path = "replay" /\ ~Pending(rx.entries[i])) =>
                            calls[i].val = StoredResult(rx.entries[i])
                 ELSE calls[i].path = "new"

\* two different entries arrived and each was replayed at its own position
C15_Witness ==
    /\ invoked /\ rx.known = 3
    /\ rx.entries = <<GetStateEntry("x", TRUE, "v2"), SleepEntry(TRUE)>>
    /\ Len(calls) = 2
    /\ calls[1].typ = "GetState" /\ calls[1].path = "replay" /\ calls[1].val = "v2"
    /\ calls[2].typ = "Sleep" /\ calls[2].path = "replay"

\* C16: between the Start frame and the call of the handler the state map
\* of the Machine holds exactly the entries of the Start payload and the
\* partial flag of the Machine is the partial-state flag of the payload.
C16_StateSeededFromStart ==
    pc \in {"PollInput", "Entries"} =>
        /\ \A k \in Keys : m.current[k] = start.stateMap[k]
        /\ m.partial = start.partial

\* C19: once the handler has returned, the message built from what it
\* returned is written, then End is attempted whether or not that write
\* succeeded; Machine.Start returns the error of the first write alone,
\* and nothing is written after End even when End fails.
C19_EndAfterFailedOutput ==
    (Returned /\ HandlerReturned) =>
        /\ Len(out) >= 2
        /\ out[Len(out)].msg = EndMessage
        /\ out[Len(out) - 1].msg.type \in {"Output", "Error"}
        /\ result = IF out[Len(out) - 1].ok THEN "nil" ELSE "write error"
        /\ Count("End") = 1
        /\ Len(out) - 2 =
              Cardinality({ i \in 1..Len(calls) : calls[i].path = "new" })

\* the write of the Output failed and End was attempted after it
C19_Witness ==
    /\ Returned /\ HandlerReturned
    /\ Len(out) = 2
    /\ out[1].msg.type = "Output" /\ ~out[1].ok
    /\ out[2].msg = EndMessage
    /\ result = "write error"

\* ------------------------------------------------------------------------
\* The error helpers of package restate applied one after the other
\* ------------------------------------------------------------------------
\* errv.val is the error built so far; the other fields record how it was
\* built: base is what the first helper was given, terminal whether
\* TerminalError was applied, codes the codes attached (the latest first),
\* applied the number of helpers applied.
ErrCodes == {NOT_FOUND, INTERNAL}

ErrInit ==
    /\ MachineInit
    /\ first = NoSession
    /\ rx = NoReads
    /\ gor = NoGoroutines
    /\ \/ errv = NoErr
       \/ errv = [NoErr EXCEPT !.val = Missing, !.base = "plain"]

ErrWithErrorCode ==
    /\ errv.applied < MaxWrap
    /\ \E c \in ErrCodes :
          errv' = [errv EXCEPT !.val = WithErrorCode(@, c),
                               !.codes = IF errv.val.nil THEN @ ELSE <<c>> \o @,
                               !.applied = @ + 1]
    /\ UNCHANGED <<pc, m, start, input, out, nread, fnCalls, calls, ret, recovered,
                   invoked, result, first, rx, gor>>

ErrTerminalError ==
    /\ errv.applied < MaxWrap
    /\ \E cs \in {<< >>} \cup { <<c>> : c \in ErrCodes } :
          errv' = [errv EXCEPT !.val = TerminalError(@, cs),
                               !.terminal = TRUE,
                               !.codes = IF errv.val.nil THEN @ ELSE cs \o @,
                               !.applied = @ + 1]
    /\ UNCHANGED <<pc, m, start, input, out, nread, fnCalls, calls, ret, recovered,
                   invoked, result, first, rx, gor>>

ErrNext == ErrWithErrorCode \/ ErrTerminalError

SpecErr == ErrInit /\ [][ErrNext]_vars

\* C17: an error is terminal exactly when TerminalError was applied to it
\* at some depth, however many times WithErrorCode wrapped it before or
\* after; nil is never terminal and both helpers hand nil back as nil.
C17_TerminalIffMadeTerminal ==
    /\ errv.base = "nil" => errv.val = Nil /\ ~IsTerminalError(errv.val)
    /\ errv.base = "plain" =>
          /\ ~errv.val.nil
          /\ IsTerminalError(errv.val) <=> errv.terminal

\* a terminal error wrapped twice by WithErrorCode
C17_Witness ==
    /\ errv.val = WithErrorCode(WithErrorCode(TerminalError(Missing, << >>),
                                              NOT_FOUND), INTERNAL)
    /\ errv.applied = 3
    /\ IsTerminalError(errv.val)

\* C18: ErrorCode is UNKNOWN for an error no code was attached to, and
\* otherwise the code attached last (the outermost one).
C18_OutermostCode ==
    ErrorCode(errv.val) = IF errv.codes = << >> THEN UNKNOWN ELSE Head(errv.codes)

\* two codes, one inside the other
C18_Witness ==
    /\ errv.val = WithErrorCode(WithErrorCode(Missing, NOT_FOUND), INTERNAL)
    /\ errv.codes = <<INTERNAL, NOT_FOUND>>
    /\ ErrorCode(errv.val) = INTERNAL

\* ------------------------------------------------------------------------
\* Exit paths of replayOrNew, the new-entry path, the size of the journal
\* ------------------------------------------------------------------------
\* a goroutine that is not inside replayOrNew: it never entered, it
\* returned, or it has run the exit code and is unwinding
Outside(g) == gor[g].at # "locked" /\ gor[g].deferred = << >>

\* C21: whenever no goroutine is inside replayOrNew the mutex is free,
\* whatever the calls made so far ended with: a replayed result, a new
\* entry, a mismatch, an error of a callback, or a panic of a callback
\* (the suspension signal).
C21_MutexFreeAfterEveryExit ==
    (\A g \in Goroutines : Outside(g)) => ~m.mutex

\* the handler's goroutine replayed a pending entry, was unwound by the
\* suspension signal, and invoke's deferred function has recovered it
C21_Witness ==
    /\ pc = "Deferred"
    /\ recovered.kind = "suspend"
    /\ Len(calls) = 2
    /\ calls[1].path = "mismatch"
    /\ calls[2].panic.kind = "suspend"
    /\ \A g \in Goroutines : gor[g].at = "idle"
    /\ ~m.mutex

\* C22: a call of replayOrNew takes the new-entry path exactly when its
\* journal position is at or past the number of recorded entries, and once
\* a call has taken it every later call of the session takes it too.
C22_NewPathIsFinal ==
    \A i \in 1..Len(calls) :
        /\ calls[i].path = "new" <=> calls[i].index >= Len(rx.entries)
        /\ calls[i].path = "new" =>
              \A j \in (i + 1)..Len(calls) : calls[j].path = "new"

\* a fresh operation is followed by another operation, which is fresh too
C22_Witness ==
    /\ invoked
    /\ rx.entries = << >>
    /\ Len(calls) = 2
    /\ calls[1].path = "new" /\ calls[1].index = 0
    /\ calls[2].path = "new" /\ calls[2].index = 1

\* process has accepted the PollInput frame
InputAccepted == Len(rx.head) = 2 /\ rx.head[2].type = "PollInput"

\* C23: for every known-entries count K of the Start frame, K = 0
\* included, process sizes the journal for max(K - 1, 0) entries (K - 1
\* does not wrap to 2^32 - 1 and the process goes on), and with K = 0 or
\* K = 1 the handler runs with an empty journal, no frame having been read
\* for it.
C23_PrefixSizeNeverWraps ==
    /\ pc # "Crashed"
    /\ (InputAccepted /\ pc # "PollInput") =>
          m.entriesCap = [hi |-> 0,
                          lo |-> IF rx.known > 0 THEN rx.known - 1 ELSE 0]
    /\ (invoked /\ rx.known <= 1) => m.entries = << >> /\ rx.entries = << >>

====
